---- MODULE Spec2Model ----
(***************************************************************************)
(* A model of excel_merger_app.py: the naming grammar (NAME_RE,            *)
(* parse_from_name), position normalisation (normalize_position), natural  *)
(* ordering (natural_key), discovery (list_all_dirs, list_csv_in_dir), the *)
(* aggregation loop (build_summary) and the end-to-end flow (main).        *)
(*                                                                         *)
(* A Python str is a sequence of one-character strings.                    *)
(***************************************************************************)
EXTENDS Integers, Sequences, FiniteSets, TLC

VARIABLES
    tree,       \* the input tree below InputFolder: directories and files
    pc,         \* position of the run inside main / build_summary
    all_dirs,   \* build_summary: all_dirs
    di,         \* build_summary: index of d in all_dirs
    csvs,       \* build_summary: csvs of the current directory
    fi,         \* build_summary: index of csv_path in csvs
    summary,    \* build_summary: the OrderedDict, as a sequence of rows
    written,    \* the tables handed to write_excel, one per output file
    message,    \* what main printed
    log,        \* history: one record per csv the loop body was entered for
    inp,        \* pure-function harness: the input
    out,        \* pure-function harness: the results
    hpc         \* pure-function harness: position

vars == <<tree, pc, all_dirs, di, csvs, fi, summary, written, message, log, inp, out, hpc>>

\* None where a str or a float is expected: distinct from every non-empty str
\* and from every float <<v>>; the code treats None and "" alike wherever the
\* model holds one (x or y, if not x).
None == <<>>

\* the None that re.match and parse_from_name return
NoMatch == [match |-> FALSE]

(***************************************************************************)
(* Characters                                                              *)
(***************************************************************************)

\* The characters of the model in code-point order, as Python compares str.
CodeOrder ==
    << "\t", " ", "$", "(", ")", "+", "-", ".", "/",
       "0", "1", "2", "3", "4", "5", "6", "7", "8", "9",
       "A", "B", "C", "D", "E", "F", "G", "H", "I", "J", "K", "L", "M",
       "N", "O", "P", "Q", "R", "S", "T", "U", "V", "W", "X", "Y", "Z",
       "_",
       "a", "b", "c", "d", "e", "f", "g", "h", "i", "j", "k", "l", "m",
       "n", "o", "p", "q", "r", "s", "t", "u", "v", "w", "x", "y", "z",
       "~" >>

Chars == {CodeOrder[i] : i \in DOMAIN CodeOrder}

Ord == [c \in Chars |-> CHOOSE i \in DOMAIN CodeOrder : CodeOrder[i] = c]

Digits == <<"0", "1", "2", "3", "4", "5", "6", "7", "8", "9">>

\* str.isdigit on one character
IsDigit(c) == \E i \in DOMAIN Digits : Digits[i] = c

DigitVal(c) == (CHOOSE i \in DOMAIN Digits : Digits[i] = c) - 1

UpperCase ==
    << "A", "B", "C", "D", "E", "F", "G", "H", "I", "J", "K", "L", "M",
       "N", "O", "P", "Q", "R", "S", "T", "U", "V", "W", "X", "Y", "Z" >>

LowerCase ==
    << "a", "b", "c", "d", "e", "f", "g", "h", "i", "j", "k", "l", "m",
       "n", "o", "p", "q", "r", "s", "t", "u", "v", "w", "x", "y", "z" >>

LowerOf ==
    [c \in Chars |->
        IF \E i \in DOMAIN UpperCase : UpperCase[i] = c
        THEN LowerCase[CHOOSE i \in DOMAIN UpperCase : UpperCase[i] = c]
        ELSE c]

\* str.lower
lower(s) == [i \in DOMAIN s |-> LowerOf[s[i]]]

\* what str.strip() removes at the two ends
IsSpace(c) == c \in {" ", "\t", "\n", "\r", "\f"}

(***************************************************************************)
(* str helpers                                                             *)
(***************************************************************************)

\* s[i:] with a 1-based i
From(s, i) == SubSeq(s, i, Len(s))

\* s.startswith(t) at the 1-based position i
HasAt(s, i, t) ==
    /\ i + Len(t) - 1 <= Len(s)
    /\ \A k \in DOMAIN t : s[i + k - 1] = t[k]

startswith(s, t) == HasAt(s, 1, t)

endswith(s, t) == Len(t) <= Len(s) /\ HasAt(s, Len(s) - Len(t) + 1, t)

\* t in s
contains(s, t) == \E i \in 1..(Len(s) + 1) : HasAt(s, i, t)

RECURSIVE lstrip(_)
lstrip(s) == IF s # <<>> /\ IsSpace(Head(s)) THEN lstrip(Tail(s)) ELSE s

RECURSIVE rstrip(_)
rstrip(s) ==
    IF s # <<>> /\ IsSpace(s[Len(s)]) THEN rstrip(SubSeq(s, 1, Len(s) - 1)) ELSE s

strip(s) == rstrip(lstrip(s))

\* s.replace(c, "") for a one-character c
RECURSIVE remove(_, _)
remove(s, c) ==
    IF s = <<>> THEN <<>>
    ELSE IF Head(s) = c THEN remove(Tail(s), c)
    ELSE <<Head(s)>> \o remove(Tail(s), c)

\* s.split(c) for a one-character c: the list of pieces, empty ones included
RECURSIVE split(_, _)
split(s, c) ==
    IF \A i \in DOMAIN s : s[i] # c THEN <<s>>
    ELSE LET i == CHOOSE j \in DOMAIN s : s[j] = c /\ \A k \in 1..(j - 1) : s[k] # c
         IN  <<SubSeq(s, 1, i - 1)>> \o split(From(s, i + 1), c)

\* c.join(parts)
RECURSIVE join(_, _)
join(parts, c) ==
    IF parts = <<>> THEN <<>>
    ELSE IF Len(parts) = 1 THEN parts[1]
    ELSE parts[1] \o <<c>> \o join(Tail(parts), c)

\* Python's < on two str: by code point, a proper prefix first
RECURSIVE StrLess(_, _)
StrLess(a, b) ==
    IF b = <<>> THEN FALSE
    ELSE IF a = <<>> THEN TRUE
    ELSE IF Head(a) # Head(b) THEN Ord[Head(a)] < Ord[Head(b)]
    ELSE StrLess(Tail(a), Tail(b))

\* list.sort() of a list of str (stable): each element goes after the ones
\* that are not greater
RECURSIVE InsertStr(_, _)
InsertStr(sorted, x) ==
    IF sorted = <<>> THEN <<x>>
    ELSE IF StrLess(x, Head(sorted)) THEN <<x>> \o sorted
    ELSE <<Head(sorted)>> \o InsertStr(Tail(sorted), x)

RECURSIVE sort_str(_)
sort_str(s) ==
    IF s = <<>> THEN <<>>
    ELSE InsertStr(sort_str(SubSeq(s, 1, Len(s) - 1)), s[Len(s)])

\* int(t) of a digit string
RECURSIVE int(_)
int(t) ==
    IF t = <<>> THEN 0 ELSE 10 * int(SubSeq(t, 1, Len(t) - 1)) + DigitVal(t[Len(t)])

\* the length of the run of digits of s that starts at i
RECURSIVE DigitRun(_, _)
DigitRun(s, i) == IF i <= Len(s) /\ IsDigit(s[i]) THEN 1 + DigitRun(s, i + 1) ELSE 0

\* the length of the run of non-digits of s that starts at i
RECURSIVE TextRun(_, _)
TextRun(s, i) == IF i <= Len(s) /\ ~IsDigit(s[i]) THEN 1 + TextRun(s, i + 1) ELSE 0

(***************************************************************************)
(* natural_key                                                             *)
(***************************************************************************)

\* re.split(r"(\d+)", text): text, digits, text, ..., text (texts may be empty)
RECURSIVE SplitDigits(_)
SplitDigits(text) ==
    LET n == TextRun(text, 1)
        m == DigitRun(text, n + 1)
    IN  IF m = 0 THEN <<text>>
        ELSE <<SubSeq(text, 1, n), SubSeq(text, n + 1, n + m)>>
             \o SplitDigits(From(text, n + m + 1))

\* The key: the digit tokens (the even places) as int, the others lower-cased.
natural_key(text) ==
    LET toks == SplitDigits(text)
    IN  [i \in DOMAIN toks |-> IF i % 2 = 0 THEN int(toks[i]) ELSE lower(toks[i])]

\* Python's < on two keys: element by element, a proper prefix first.  Places
\* of the same index hold the same type in every key.
RECURSIVE KeyLessFrom(_, _, _)
KeyLessFrom(a, b, i) ==
    IF i > Len(b) THEN FALSE
    ELSE IF i > Len(a) THEN TRUE
    ELSE IF a[i] = b[i] THEN KeyLessFrom(a, b, i + 1)
    ELSE IF i % 2 = 0 THEN a[i] < b[i]
    ELSE StrLess(a[i], b[i])

\* list.sort(key=natural_key) (stable) on <<key, item>> pairs
RECURSIVE InsertByKey(_, _)
InsertByKey(sorted, x) ==
    IF sorted = <<>> THEN <<x>>
    ELSE IF KeyLessFrom(x[1], Head(sorted)[1], 1) THEN <<x>> \o sorted
    ELSE <<Head(sorted)>> \o InsertByKey(Tail(sorted), x)

RECURSIVE SortPairs(_)
SortPairs(s) ==
    IF s = <<>> THEN <<>>
    ELSE InsertByKey(SortPairs(SubSeq(s, 1, Len(s) - 1)), s[Len(s)])

\* items.sort(key=lambda p: natural_key(text(p))), texts[i] being the text
\* of items[i]
sort_natural(items, texts) ==
    LET pairs  == [i \in DOMAIN items |-> <<natural_key(texts[i]), items[i]>>]
        sorted == SortPairs(pairs)
    IN  [i \in DOMAIN items |-> sorted[i][2]]

(***************************************************************************)
(* normalize_position                                                      *)
(***************************************************************************)

\* normalize_position without the sort of line 63
normalize_unsorted(pos) ==
    IF pos = None THEN <<>>
    ELSE IF \E i \in DOMAIN remove(lower(strip(pos)), " ") :
                remove(lower(strip(pos)), " ")[i] = "+"
    THEN join(SelectSeq(split(remove(lower(strip(pos)), " "), "+"),
                        LAMBDA q : q # <<>>), "+")
    ELSE remove(lower(strip(pos)), " ")

normalize_position(pos) ==
    IF pos = None THEN <<>>
    ELSE LET p == remove(lower(strip(pos)), " ")
         IN  IF \E i \in DOMAIN p : p[i] = "+"
             THEN LET parts == SelectSeq(split(p, "+"), LAMBDA q : q # <<>>)
                  IN  join(sort_str(parts), "+")
             ELSE p

(***************************************************************************)
(* NAME_RE and parse_from_name                                             *)
(***************************************************************************)

\* Python str literals of the grammar
KindMicroglia == <<"m", "i", "c", "r", "o", "g", "l", "i", "a">>
KindRibeyes   == <<"r", "i", "b", "e", "y", "e", "s">>
TagDetailed   == <<"D", "e", "t", "a", "i", "l", "e", "d">>
TagStatistics == <<"S", "t", "a", "t", "i", "s", "t", "i", "c", "s">>
DotCsv        == <<".", "c", "s", "v">>

\* (?P<kind>microglia|ribeyes), in the order of the alternation
KindWords == <<KindMicroglia, KindRibeyes>>
\* (?P<tag>Detailed|Statistics)
TagWords == <<TagDetailed, TagStatistics>>

\* \d{3,6}
MinViewDigits == 3
MaxViewDigits == 6

\* $ : the end of the string, or just before a final newline
AtEnd(s, j) == j = Len(s) + 1 \/ (j = Len(s) /\ s[j] = "\n")

\* (?:\.csv)?$ at j (ls is the lower-cased name: the pattern ignores case)
MatchCsvEnd(ls, j) ==
    \/ HasAt(ls, j, DotCsv) /\ AtEnd(ls, j + Len(DotCsv))
    \/ AtEnd(ls, j)

\* (?P<tag>Detailed|Statistics)?(?:\.csv)?$ at j, the alternatives of the tag
\* from the t-th on: the tag (None when the group took no part), or NoMatch.
\* The group is tried before its absence.
RECURSIVE MatchTag(_, _, _, _)
MatchTag(s, ls, j, t) ==
    IF t > Len(TagWords)
    THEN IF MatchCsvEnd(ls, j) THEN [match |-> TRUE, tag |-> None] ELSE NoMatch
    ELSE IF HasAt(ls, j, lower(TagWords[t])) /\ MatchCsvEnd(ls, j + Len(TagWords[t]))
    THEN [match |-> TRUE, tag |-> SubSeq(s, j, j + Len(TagWords[t]) - 1)]
    ELSE MatchTag(s, ls, j, t + 1)

\* the groups kind = s[ks..ke], pos = s[ps..pe] with the tag match t
Groups(s, ks, ke, ps, pe, t) ==
    IF ~t.match THEN NoMatch
    ELSE [match |-> TRUE,
          kind  |-> SubSeq(s, ks, ke),
          pos   |-> SubSeq(s, ps, pe),
          tag   |-> t.tag]

\* (?P<pos>[^)]+) \) _ (?P<tag>..)? (?:\.csv)? $ with pos from ps, the kind
\* being s[ks..ps-2]; n is the length of the run of [^)] at ps: the greedy +
\* takes it all, and a shorter pos is not followed by \)
MatchPos(s, ls, ks, ps, n) ==
    IF n = 0 \/ ~(HasAt(s, ps + n, <<")", "_">>)) THEN NoMatch
    ELSE Groups(s, ks, ps - 2, ps, ps + n - 1, MatchTag(s, ls, ps + n + 2, 1))

\* the length of the run of characters other than c that starts at i
RECURSIVE RunNot(_, _, _)
RunNot(s, i, c) == IF i <= Len(s) /\ s[i] # c THEN 1 + RunNot(s, i + 1, c) ELSE 0

\* (?P<kind>microglia|ribeyes) - ... at j, the alternatives from the k-th on
RECURSIVE MatchKind(_, _, _, _)
MatchKind(s, ls, j, k) ==
    IF k > Len(KindWords) THEN NoMatch
    ELSE IF HasAt(ls, j, KindWords[k] \o <<"-">>)
            /\ MatchPos(s, ls, j, j + Len(KindWords[k]) + 1,
                        RunNot(s, j + Len(KindWords[k]) + 1, ")")).match
    THEN MatchPos(s, ls, j, j + Len(KindWords[k]) + 1,
                  RunNot(s, j + Len(KindWords[k]) + 1, ")"))
    ELSE MatchKind(s, ls, j, k + 1)

\* \( (?P<kind>..) - (?P<pos>[^)]+) \) _ (?P<tag>..)? (?:\.csv)? $   at j
MatchGroup(s, ls, j) ==
    IF j <= Len(s) /\ s[j] = "(" THEN MatchKind(s, ls, j + 1, 1) ELSE NoMatch

\* the groups of g with the view v
WithView(g, v) ==
    [match |-> TRUE, view |-> v, kind |-> g.kind, pos |-> g.pos, tag |-> g.tag]

\* (?:_(?P<view>\d{3,6}))? and the rest at i.  run is the length of the run
\* of digits after a "_" at i (0 without "_").  The view is tried before its
\* absence, with n digits, the most first.
RECURSIVE MatchView(_, _, _, _, _)
MatchView(s, ls, i, run, n) ==
    IF n < MinViewDigits
    THEN IF MatchGroup(s, ls, i).match
         THEN WithView(MatchGroup(s, ls, i), None)
         ELSE NoMatch
    ELSE IF n <= run /\ MatchGroup(s, ls, i + 1 + n).match
    THEN WithView(MatchGroup(s, ls, i + 1 + n), SubSeq(s, i + 1, i + n))
    ELSE MatchView(s, ls, i, run, n - 1)

\* the groups of g with the mouse m
WithMouse(g, m) ==
    [match |-> TRUE, mouse |-> m, view |-> g.view, kind |-> g.kind,
     pos |-> g.pos, tag |-> g.tag]

\* .*? and the rest, the filler being name[a..i-1]: the lazy .*? grows by one
\* character (any but a newline) as long as the rest does not match
RECURSIVE MatchFiller(_, _, _, _)
MatchFiller(name, ls, a, i) ==
    IF MatchView(name, ls, i,
                 IF i <= Len(name) /\ name[i] = "_" THEN DigitRun(name, i + 1) ELSE 0,
                 MaxViewDigits).match
    THEN WithMouse(MatchView(name, ls, i,
                     IF i <= Len(name) /\ name[i] = "_" THEN DigitRun(name, i + 1) ELSE 0,
                     MaxViewDigits),
                   SubSeq(name, 1, a - 2))
    ELSE IF i <= Len(name) /\ name[i] # "\n" THEN MatchFiller(name, ls, a, i + 1)
    ELSE NoMatch

\* ^(?P<mouse>p\d+) - and the rest; d is the length of the run of digits
\* after the first character
MatchMouse(name, ls, d) ==
    IF name # <<>> /\ ls[1] = "p" /\ d >= 1 /\ HasAt(name, d + 2, <<"-">>)
    THEN MatchFiller(name, ls, d + 3, d + 3)
    ELSE NoMatch

\* NAME_RE.match(name): the groups, or NoMatch
NAME_RE(name) == MatchMouse(name, lower(name), DigitRun(name, 2))

Slash == <<"/">>

\* x or y, for str
Or(x, y) == IF x = None THEN y ELSE x

\* lines 99-106
ParsedName(m) ==
    IF ~m.match THEN NoMatch
    ELSE [match |-> TRUE,
          mouse |-> lower(m.mouse),
          view  |-> Or(m.view, Slash),
          pos   |-> normalize_position(Or(m.pos, <<>>)),
          kind  |-> lower(Or(m.kind, <<>>))]

\* (mouse, view, pos, kind), or NoMatch for the None of a failed parse
parse_from_name(name) == ParsedName(NAME_RE(name))

(***************************************************************************)
(* first_float_in_first_column                                             *)
(***************************************************************************)

\* A file is [readable, rows]: readable is whether open() and the utf-8-sig
\* decoding succeed, rows what csv.reader yields, each row a list of str.
\* float(s) is modelled on unsigned digit strings; every other text of the
\* model raises ValueError.
float(s) == IF s # <<>> /\ \A i \in DOMAIN s : IsDigit(s[i]) THEN <<int(s)>> ELSE None

\* the first float of the first column, None when no row has one
RECURSIVE FirstFloat(_)
FirstFloat(rows) ==
    IF rows = <<>> THEN None
    ELSE LET row == Head(rows)
         IN  IF row = <<>> THEN FirstFloat(Tail(rows))
             ELSE LET t == strip(row[1])
                  IN  IF t = <<>> THEN FirstFloat(Tail(rows))
                      ELSE IF float(t) # None THEN float(t)
                      ELSE FirstFloat(Tail(rows))

\* [raised, val]: raised when open() or the decoding of the file raises
first_float_in_first_column(file) ==
    IF ~file.readable THEN [raised |-> TRUE, val |-> None]
    ELSE [raised |-> FALSE, val |-> FirstFloat(file.rows)]

(***************************************************************************)
(* The input tree                                                          *)
(***************************************************************************)

\* A directory is its path below the input root, a sequence of names; the
\* root is <<>>.  tree.dirs holds the root and is closed under parents;
\* tree.files is a set of [dir, name].  What a file holds is an input of the
\* step that opens it.
Root == <<>>

basename(path) == path[Len(path)]

dirname(path) == SubSeq(path, 1, Len(path) - 1)

\* os.path.relpath(p, input_dir)
relpath(path) == join(path, "/")

\* the permutations of a finite set, as sequences
RECURSIVE Perms(_)
Perms(S) ==
    IF S = {} THEN {<<>>}
    ELSE UNION {{<<x>> \o q : q \in Perms(S \ {x})} : x \in S}

\* the elements of the set S in the order the sequence order gives them
Ordered(S, order) == SelectSeq(order, LAMBDA x : x \in S)

ChildDirs(tr, d) == {c \in tr.dirs : c # Root /\ dirname(c) = d}

FilesIn(tr, d) == {f \in tr.files : f.dir = d}

\* os.listdir(d): the names of the files and of the directories in d
Entries(tr, d) == {f.name : f \in FilesIn(tr, d)} \cup {basename(c) : c \in ChildDirs(tr, d)}

(***************************************************************************)
(* list_all_dirs and list_csv_in_dir                                       *)
(***************************************************************************)

Dot == <<".">>
LockPrefix == <<"~", "$">>

RECURSIVE Flatten(_)
Flatten(ss) == IF ss = <<>> THEN <<>> ELSE Head(ss) \o Flatten(Tail(ss))

\* walk without the pruning of line 136
RECURSIVE walk_unpruned(_, _, _)
walk_unpruned(tr, top, order) ==
    <<top>> \o Flatten([i \in DOMAIN Ordered(ChildDirs(tr, top), order) |->
                           walk_unpruned(tr, Ordered(ChildDirs(tr, top), order)[i], order)])

\* os.walk(input_dir) from top with the pruning of line 136: the directories
\* it yields, top first.  order is the order the system lists entries in.
RECURSIVE walk(_, _, _)
walk(tr, top, order) ==
    LET listed  == Ordered(ChildDirs(tr, top), order)
        subdirs == SelectSeq(listed, LAMBDA c : ~startswith(basename(c), Dot))
    IN  <<top>> \o Flatten([i \in DOMAIN subdirs |-> walk(tr, subdirs[i], order)])

list_all_dirs(tr, order) ==
    LET dirs == SelectSeq(walk(tr, Root, order), LAMBDA r : r # Root)
    IN  sort_natural(dirs, [i \in DOMAIN dirs |-> relpath(dirs[i])])

\* list_csv_in_dir without the sort of line 150
list_csv_unsorted(listing) ==
    SelectSeq(listing,
              LAMBDA f : ~startswith(f, LockPrefix) /\ endswith(lower(f), DotCsv))

\* listing is os.listdir(dir_path), in the order the system gives
list_csv_in_dir(listing) ==
    LET csv == SelectSeq(listing,
                   LAMBDA f : ~startswith(f, LockPrefix) /\ endswith(lower(f), DotCsv))
    IN  sort_natural(csv, csv)

(***************************************************************************)
(* The input trees of the model                                            *)
(***************************************************************************)

\* p1-a(microglia-opl+ipl)_Statistics.csv
csvA ==
    <<"p", "1", "-", "a", "(", "m", "i", "c", "r", "o", "g", "l", "i", "a", "-", "o", "p", "l", "+", "i", "p", "l", ")", "_", "S", "t", "a", "t", "i", "s", "t", "i", "c", "s", ".", "c", "s", "v">>

\* P1-b(Ribeyes- IPL+OPL)_Detailed.CSV
csvB ==
    <<"P", "1", "-", "b", "(", "R", "i", "b", "e", "y", "e", "s", "-", " ", "I", "P", "L", "+", "O", "P", "L", ")", "_", "D", "e", "t", "a", "i", "l", "e", "d", ".", "C", "S", "V">>

\* p2-c_0007(microglia-gcl)_Statistics.csv
csvC ==
    <<"p", "2", "-", "c", "_", "0", "0", "0", "7", "(", "m", "i", "c", "r", "o", "g", "l", "i", "a", "-", "g", "c", "l", ")", "_", "S", "t", "a", "t", "i", "s", "t", "i", "c", "s", ".", "c", "s", "v">>

\* p1-2(ribeyes-opl)_Detailed.csv
csvP2 ==
    <<"p", "1", "-", "2", "(", "r", "i", "b", "e", "y", "e", "s", "-", "o", "p", "l", ")", "_", "D", "e", "t", "a", "i", "l", "e", "d", ".", "c", "s", "v">>

\* p1-10(ribeyes-opl)_Detailed.csv
csvP10 ==
    <<"p", "1", "-", "1", "0", "(", "r", "i", "b", "e", "y", "e", "s", "-", "o", "p", "l", ")", "_", "D", "e", "t", "a", "i", "l", "e", "d", ".", "c", "s", "v">>

\* P1-02(ribeyes-opl)_Detailed.csv
csvP02 ==
    <<"P", "1", "-", "0", "2", "(", "r", "i", "b", "e", "y", "e", "s", "-", "o", "p", "l", ")", "_", "D", "e", "t", "a", "i", "l", "e", "d", ".", "c", "s", "v">>

\* ribeyes2.csv
csvR2 ==
    <<"r", "i", "b", "e", "y", "e", "s", "2", ".", "c", "s", "v">>

\* microglia-ribeyes.csv
csvBoth ==
    <<"m", "i", "c", "r", "o", "g", "l", "i", "a", "-", "r", "i", "b", "e", "y", "e", "s", ".", "c", "s", "v">>

\* Microglia.csv
csvMic ==
    <<"M", "i", "c", "r", "o", "g", "l", "i", "a", ".", "c", "s", "v">>

\* notes.csv
csvNotes ==
    <<"n", "o", "t", "e", "s", ".", "c", "s", "v">>

\* ~$ribeyes2.csv
csvLock ==
    <<"~", "$", "r", "i", "b", "e", "y", "e", "s", "2", ".", "c", "s", "v">>

\* ribeyes2.txt
txtR ==
    <<"r", "i", "b", "e", "y", "e", "s", "2", ".", "t", "x", "t">>

\* p5-f_012(Ribeyes-onl+ INL)_Statistics
dirM ==
    <<"p", "5", "-", "f", "_", "0", "1", "2", "(", "R", "i", "b", "e", "y", "e", "s", "-", "o", "n", "l", "+", " ", "I", "N", "L", ")", "_", "S", "t", "a", "t", "i", "s", "t", "i", "c", "s">>

\* p5-foo(ribeyes-gcl)
dirN ==
    <<"p", "5", "-", "f", "o", "o", "(", "r", "i", "b", "e", "y", "e", "s", "-", "g", "c", "l", ")">>

\* d2
dir2 ==
    <<"d", "2">>

\* d10
dir10 ==
    <<"d", "1", "0">>

\* D02
dirD02 ==
    <<"D", "0", "2">>

\* .h
dirHidden ==
    <<".", "h">>

\* The places a file of the model may be at: <<directory, name>>.
Slots ==
    << <<Root, csvA>>,
       <<<<dirHidden>>, csvA>>, <<<<dirHidden, dirM>>, csvR2>>,
       <<<<dirM>>, csvA>>, <<<<dirM>>, csvP2>>,
       <<<<dirM>>, csvBoth>>, <<<<dirM>>, csvMic>>,
       <<<<dirM>>, csvNotes>>, <<<<dirM>>, csvLock>>, <<<<dirM>>, txtR>>,
       <<<<dirN>>, csvA>>, <<<<dirN>>, csvB>>, <<<<dirN>>, csvC>>,
       <<<<dirN>>, csvP2>>,
       <<<<dirN>>, csvP10>>, <<<<dirN>>, csvP02>>, <<<<dirN>>, csvNotes>>,
       <<<<dir2>>, csvA>>, <<<<dir2>>, csvB>>, <<<<dir2>>, csvP2>>,
       <<<<dir10>>, csvA>>, <<<<dir10>>, csvB>>,
       <<<<dirD02>>, csvP2>>,
       <<<<dir2, dirM>>, csvR2>> >>

\* the most files a tree of the model holds
MaxFiles == 2

\* What a file holds: "bad" cannot be opened or decoded, "nonum" has no float
\* in its first column, "num" has the float i (the number of its slot, so
\* that a value tells which file it was read from).
ContentKinds == {"bad", "nonum", "num"}

NumText(i) == <<" ", Digits[(i \div 10) + 1], Digits[(i % 10) + 1], " ">>

Content(i, k) ==
    IF k = "bad" THEN [readable |-> FALSE, rows |-> <<>>]
    ELSE IF k = "nonum"
    THEN [readable |-> TRUE,
          rows |-> << <<>>, << <<" ">>, <<"9">> >>, << <<"V">>, <<"9">> >> >>]
    ELSE [readable |-> TRUE,
          rows |-> << <<>>, << <<" ">>, <<"9">> >>, << <<"V">>, <<"9">> >>,
                      <<NumText(i), <<"9">>>>, << <<"8">> >> >>]

SlotOf(d, name) == CHOOSE i \in DOMAIN Slots : Slots[i] = <<d, name>>

\* the directories on the way from the root to d, d included
Ancestors(d) == {SubSeq(d, 1, n) : n \in 0..Len(d)}

TreeOf(pick) ==
    [dirs  |-> {Root} \cup UNION {Ancestors(Slots[pick[j]][1]) : j \in DOMAIN pick},
     files |-> {[dir |-> Slots[pick[j]][1], name |-> Slots[pick[j]][2]] :
                    j \in DOMAIN pick}]

Trees ==
    UNION {{TreeOf(pick) :
                pick \in {q \in [1..n -> DOMAIN Slots] :
                             \A a, b \in 1..n : a < b => q[a] < q[b]}} :
           n \in 0..MaxFiles}

Init ==
    /\ tree \in Trees
    /\ pc = "main"
    /\ all_dirs = <<>>
    /\ di = 0
    /\ csvs = <<>>
    /\ fi = 0
    /\ summary = <<>>
    /\ written = <<>>
    /\ message = ""
    /\ log = <<>>
    /\ inp = None
    /\ out = <<>>
    /\ hpc = "off"

(***************************************************************************)
(* build_summary: the body of the loop over csvs                           *)
(***************************************************************************)

\* Resolve with the precedence turned round: the file's own name first
ResolveFileFirst(folder_parsed, parsed_csv) ==
    IF parsed_csv.match
    THEN [skip  |-> FALSE,
          mouse |-> parsed_csv.mouse,
          view  |-> parsed_csv.view,
          pos   |-> parsed_csv.pos,
          kind  |-> parsed_csv.kind]
    ELSE IF folder_parsed.match
         THEN [skip  |-> FALSE,
               mouse |-> folder_parsed.mouse,
               view  |-> folder_parsed.view,
               pos   |-> folder_parsed.pos,
               kind  |-> None]
         ELSE [skip |-> TRUE, mouse |-> None, view |-> None, pos |-> None,
               kind |-> None]

\* lines 176-184: the key fields and the parsed kind of one csv, or skip
Resolve(folder_parsed, parsed_csv) ==
    IF folder_parsed.match
    THEN [skip  |-> FALSE,
          mouse |-> folder_parsed.mouse,
          view  |-> folder_parsed.view,
          pos   |-> folder_parsed.pos,
          kind  |-> IF parsed_csv.match THEN parsed_csv.kind ELSE None]
    ELSE IF ~parsed_csv.match
         THEN [skip |-> TRUE, mouse |-> None, view |-> None, pos |-> None,
               kind |-> None]
         ELSE [skip  |-> FALSE,
               mouse |-> parsed_csv.mouse,
               view  |-> parsed_csv.view,
               pos   |-> parsed_csv.pos,
               kind  |-> parsed_csv.kind]

\* SniffKind with the two tests in the other order
SniffMicrogliaFirst(kind, csv_name) ==
    IF kind # None THEN kind
    ELSE IF contains(lower(csv_name), KindMicroglia) THEN KindMicroglia
    ELSE IF contains(lower(csv_name), KindRibeyes) THEN KindRibeyes
    ELSE None

\* lines 187-194: the kind, sniffed from the name when the parse gave none;
\* None when the file cannot be classified
SniffKind(kind, csv_name) ==
    IF kind # None THEN kind
    ELSE LET low == lower(csv_name)
         IN  IF contains(low, KindRibeyes) THEN KindRibeyes
             ELSE IF contains(low, KindMicroglia) THEN KindMicroglia
             ELSE None

\* the place of key in the OrderedDict, 0 when it is not a key
IndexOf(table, key) ==
    IF \E i \in DOMAIN table : table[i].key = key
    THEN CHOOSE i \in DOMAIN table : table[i].key = key
    ELSE 0

\* lines 200-208
NewRow(mouse, view, pos) ==
    [key              |-> <<mouse, view, pos>>,
     mouse_ID         |-> mouse,
     view_id          |-> view,
     position         |-> pos,
     Ribeyes          |-> None,
     microglia        |-> None,
     engulfment_index |-> None]

\* lines 199-213: the table after one value is stored
Store(table, mouse, view, pos, kind, val) ==
    LET key   == <<mouse, view, pos>>
        with  == IF IndexOf(table, key) = 0
                 THEN Append(table, NewRow(mouse, view, pos))
                 ELSE table
        i     == IndexOf(with, key)
    IN  IF kind = KindRibeyes THEN [with EXCEPT ![i].Ribeyes = val]
        ELSE IF kind = KindMicroglia THEN [with EXCEPT ![i].microglia = val]
        ELSE with

(***************************************************************************)
(* The run: main calls build_summary, then write_excel                     *)
(***************************************************************************)

prog == <<tree, pc, all_dirs, di, csvs, fi, summary, written, message, log>>
harness == <<inp, out, hpc>>

\* lines 155-156: summary = OrderedDict(); all_dirs = list_all_dirs(input_dir)
ListAllDirs ==
    /\ pc = "main"
    /\ \E order \in Perms(tree.dirs \ {Root}) :
          all_dirs' = list_all_dirs(tree, order)
    /\ summary' = <<>>
    /\ di' = 1
    /\ pc' = "dirs"
    /\ UNCHANGED <<tree, csvs, fi, written, message, log, harness>>

\* lines 158-170: the next d of all_dirs; a directory without csv is passed over
ListCsvInDir ==
    /\ pc = "dirs"
    /\ di <= Len(all_dirs)
    /\ \E listing \in Perms(Entries(tree, all_dirs[di])) :
          \E found \in {list_csv_in_dir(listing)} :
              IF found = <<>>
              THEN /\ di' = di + 1
                   /\ UNCHANGED <<csvs, fi, pc>>
              ELSE /\ csvs' = found
                   /\ fi' = 1
                   /\ pc' = "files"
                   /\ UNCHANGED di
    /\ UNCHANGED <<tree, all_dirs, summary, written, message, log, harness>>

\* after the body of the loop over csvs: the next csv_path, or the next d
Advance ==
    IF fi < Len(csvs)
    THEN fi' = fi + 1 /\ UNCHANGED <<di, pc>>
    ELSE di' = di + 1 /\ pc' = "dirs" /\ UNCHANGED fi

\* lines 173-213: the body of the loop for csvs[fi].  The file is opened only
\* when the csv is keyed and classified; what it holds is chosen then.  An
\* entry that is a directory cannot be opened.
ProcessCsv ==
    /\ pc = "files"
    /\ \E d \in {all_dirs[di]}, csv_name \in {csvs[fi]} :
       \E folder_parsed \in {parse_from_name(basename(d))} :
       \E r \in {Resolve(folder_parsed, parse_from_name(csv_name))} :
       \E kind \in {IF r.skip THEN None ELSE SniffKind(r.kind, csv_name)} :
       LET event(what, val) ==
               [dir |-> d, name |-> csv_name, what |-> what,
                key |-> <<r.mouse, r.view, r.pos>>, kind |-> kind, val |-> val]
       IN  IF r.skip \/ kind = None
           THEN /\ log' = Append(log, event("skipped", None))
                /\ Advance
                /\ UNCHANGED summary
           ELSE \E k \in IF [dir |-> d, name |-> csv_name] \in tree.files
                         THEN ContentKinds ELSE {"bad"} :
                \E read \in {first_float_in_first_column(
                                 Content(SlotOf(d, csv_name), k))} :
                IF read.raised
                THEN /\ log' = Append(log, event("raised", None))
                     /\ pc' = "raised"
                     /\ UNCHANGED <<summary, di, fi>>
                ELSE /\ summary' = Store(summary, r.mouse, r.view, r.pos, kind, read.val)
                     /\ log' = Append(log, event("stored", read.val))
                     /\ Advance
    /\ UNCHANGED <<tree, all_dirs, csvs, written, message, harness>>

\* line 215: return summary
Return ==
    /\ pc = "dirs"
    /\ di > Len(all_dirs)
    /\ pc' = "returned"
    /\ UNCHANGED <<tree, all_dirs, di, csvs, fi, summary, written, message, log, harness>>

\* lines 248-250: nothing was extracted
MainEmpty ==
    /\ pc = "returned"
    /\ summary = <<>>
    /\ message' = "nothing extracted"
    /\ pc' = "done"
    /\ UNCHANGED <<tree, all_dirs, di, csvs, fi, summary, written, log, harness>>

\* lines 252-253 and write_excel: one file with the rows in insertion order
MainWrite ==
    /\ pc = "returned"
    /\ summary # <<>>
    /\ written' = Append(written, summary)
    /\ message' = "output file written"
    /\ pc' = "done"
    /\ UNCHANGED <<tree, all_dirs, di, csvs, fi, summary, log, harness>>

Next ==
    \/ ListAllDirs
    \/ ListCsvInDir
    \/ ProcessCsv
    \/ Return
    \/ MainEmpty
    \/ MainWrite

Spec == Init /\ [][Next]_vars

(***************************************************************************)
(* The pure functions on their own: normalize_position applied twice, and  *)
(* parse_from_name applied to a name put together from its parts           *)
(***************************************************************************)

\* the program does not run in these specifications
Idle ==
    /\ tree = [dirs |-> {Root}, files |-> {}]
    /\ pc = "off"
    /\ all_dirs = <<>>
    /\ di = 0
    /\ csvs = <<>>
    /\ fi = 0
    /\ summary = <<>>
    /\ written = <<>>
    /\ message = ""
    /\ log = <<>>

\* the longest position tag of the model
MaxPosLen == 4

\* letters of both cases, a digit, "+", the space and the tab
PosChars == {"a", "B", "1", "+", " ", "\t"}

StringsOver(chars, n) == UNION {[1..k -> chars] : k \in 0..n}

InitNormalize ==
    /\ Idle
    /\ inp \in StringsOver(PosChars, MaxPosLen)
    /\ out = <<>>
    /\ hpc = "normalize"

Normalize ==
    /\ hpc = "normalize"
    /\ out' = <<normalize_position(inp)>>
    /\ hpc' = "normalized"
    /\ UNCHANGED <<prog, inp>>

Renormalize ==
    /\ hpc = "normalized"
    /\ out' = Append(out, normalize_position(out[1]))
    /\ hpc' = "renormalized"
    /\ UNCHANGED <<prog, inp>>

NextNormalize == Normalize \/ Renormalize

SpecNormalize == InitNormalize /\ [][NextNormalize]_vars

\* the parts of a name of the grammar
PartMice    == {<<"p", "5">>, <<"P", "1", "2">>}
PartFillers == {<<>>, <<"f", "o", "o">>, <<"a", "_", "1", "2">>, <<"x", "(", "y", ")">>}
PartViews   == {None, <<"0", "0", "7">>, <<"0", "0", "0", "1", "2", "3">>}
PartKinds   == {KindMicroglia, <<"R", "i", "b", "e", "y", "e", "s">>}
PartTags    == {<<"g", "c", "l">>, <<"o", "p", "l", "+", "i", "p", "l">>,
                <<" ", "I", "P", "L", " ", "+", " ", "O", "P", "L">>}
PartTails   == {<<>>, <<"_">>, DotCsv, <<"_">> \o TagStatistics,
                <<"_">> \o lower(TagDetailed) \o <<".", "C", "S", "V">>,
                <<"_">> \o DotCsv}

NameParts ==
    [mouse : PartMice, filler : PartFillers, view : PartViews,
     kind : PartKinds, tag : PartTags, tail : PartTails]

\* subject, "-", filler, the optional _view, (kind-position), tail
NameOf(q) ==
    q.mouse \o <<"-">> \o q.filler
    \o (IF q.view = None THEN <<>> ELSE <<"_">> \o q.view)
    \o <<"(">> \o q.kind \o <<"-">> \o q.tag \o <<")">> \o q.tail

InitParse ==
    /\ Idle
    /\ inp \in NameParts
    /\ out = <<>>
    /\ hpc = "parse"

Parse ==
    /\ hpc = "parse"
    /\ out' = <<parse_from_name(NameOf(inp))>>
    /\ hpc' = "parsed"
    /\ UNCHANGED <<prog, inp>>

NextParse == Parse

SpecParse == InitParse /\ [][NextParse]_vars

(***************************************************************************)
(* Properties of the pure functions                                        *)
(***************************************************************************)

\* what a name put together from the parts q is said to parse to
ExpectedParse(q) ==
    [match |-> TRUE,
     mouse |-> lower(q.mouse),
     view  |-> IF q.view = None THEN Slash ELSE q.view,
     pos   |-> normalize_position(q.tag),
     kind  |-> lower(q.kind)]

\* C2: a name of the grammar with nothing after the closing parenthesis (no
\* trailing tag, as in the folder name p5-foo(ribeyes-gcl)) matches, and
\* parses to its subject, its view ("/" when absent), its normalized
\* position and its kind.
C2_TaglessNameParses ==
    (hpc = "parsed" /\ inp.tail = <<>>) => out[1] = ExpectedParse(inp)

\* What the pattern does accept: the "_" after the closing parenthesis is
\* not part of the optional tag, so a name parses exactly when its tail
\* starts with "_".
UnderscoreDecides ==
    hpc = "parsed" =>
        out[1] = IF startswith(inp.tail, <<"_">>) THEN ExpectedParse(inp) ELSE NoMatch

\* C4: normalize_position is idempotent on every string over letters,
\* digits, "+", the space and other whitespace such as the tab, and its
\* result holds no whitespace.
C4_NormalizeIdempotent ==
    hpc = "renormalized" =>
        /\ out[2] = out[1]
        /\ \A i \in DOMAIN out[1] : ~IsSpace(out[1][i])

\* On strings without whitespace other than the space both parts hold.
IdempotentWithoutTab ==
    (hpc = "renormalized" /\ \A i \in DOMAIN inp : inp[i] # "\t") =>
        /\ out[2] = out[1]
        /\ \A i \in DOMAIN out[1] : ~IsSpace(out[1][i])

(***************************************************************************)
(* Properties of the run                                                   *)
(***************************************************************************)

Stored(e) == e.what = "stored"

KeysOf(table) == {table[i].key : i \in DOMAIN table}

\* the row of key as <<row>>, <<>> when the table has none
RowOf(table, key) ==
    LET rows == SelectSeq(table, LAMBDA r : r.key = key)
    IN  IF rows = <<>> THEN <<>> ELSE <<rows[1]>>

\* the marker column of a kind
Col(row, kind) == IF kind = KindRibeyes THEN row.Ribeyes ELSE row.microglia

OtherKind(kind) == IF kind = KindRibeyes THEN KindMicroglia ELSE KindRibeyes

FolderMatches(d) == NAME_RE(basename(d)).match

\* the (subject, view, position) of a folder name that matches
FolderKey(d) ==
    <<parse_from_name(basename(d)).mouse,
      parse_from_name(basename(d)).view,
      parse_from_name(basename(d)).pos>>

FileKey(name) ==
    <<parse_from_name(name).mouse, parse_from_name(name).view,
      parse_from_name(name).pos>>

\* C1: in a merge unit whose folder name matches the grammar, a file changes
\* only the row keyed by the folder's (subject, view, position): every row of
\* another key, a key taken from the file's own name included, is neither
\* created nor updated.
C1_FolderKeyOnly ==
    [][(pc = "files" /\ FolderMatches(all_dirs[di])) =>
          \A key \in KeysOf(summary) \cup KeysOf(summary') :
              key # FolderKey(all_dirs[di]) => RowOf(summary', key) = RowOf(summary, key)
      ]_vars

\* a file whose own name parses to another key was stored under the key of
\* its folder
C1_Witness ==
    \E i \in DOMAIN log :
        /\ Stored(log[i])
        /\ FolderMatches(log[i].dir)
        /\ NAME_RE(log[i].name).match
        /\ FileKey(log[i].name) # FolderKey(log[i].dir)
        /\ FolderKey(log[i].dir) \in KeysOf(summary)
        /\ FileKey(log[i].name) \notin KeysOf(summary)

\* the path below the root is not empty and none of its names starts with "."
BelowRootUnhidden(d) == d # Root /\ \A i \in DOMAIN d : d[i][1] # "."

\* the name ends with .csv in any case and does not start with "~$"
CsvName(name) ==
    /\ Len(name) >= 4
    /\ lower(SubSeq(name, Len(name) - 3, Len(name))) = <<".", "c", "s", "v">>
    /\ ~(Len(name) >= 2 /\ name[1] = "~" /\ name[2] = "$")

\* C8: the table changes only for a file of a directory strictly below the
\* root, with no dot-prefixed directory on the way to it, whose name ends
\* in .csv (any case) and does not start with "~$".
C8_OnlyEligibleFilesContribute ==
    [][summary' # summary =>
          /\ pc = "files"
          /\ [dir |-> all_dirs[di], name |-> csvs[fi]] \in tree.files
          /\ BelowRootUnhidden(all_dirs[di])
          /\ CsvName(csvs[fi])
      ]_vars

\* the scan is over, a file was stored, and the tree holds files with names
\* that parse in the root or below a dot-prefixed directory, all left out
C8_Witness ==
    /\ pc = "done"
    /\ \E i \in DOMAIN log : Stored(log[i])
    /\ \E f \in tree.files :
          /\ ~BelowRootUnhidden(f.dir)
          /\ CsvName(f.name)
          /\ (NAME_RE(f.name).match \/ FolderMatches(f.dir))
    /\ \A i \in DOMAIN log : BelowRootUnhidden(log[i].dir)

\* the kind the claim gives a file of a unit whose folder matched: the kind
\* of its own name when it parses, else ribeyes before microglia by
\* substring of the lower-cased name, else none
ClaimedKind(name) ==
    IF NAME_RE(name).match THEN lower(NAME_RE(name).kind)
    ELSE IF \E i \in 1..Len(name) : HasAt(lower(name), i, KindRibeyes) THEN KindRibeyes
    ELSE IF \E i \in 1..Len(name) : HasAt(lower(name), i, KindMicroglia) THEN KindMicroglia
    ELSE None

\* C9: in a unit whose folder name matched, the kind of the folder name is
\* never used: a file is classified by the kind of its own name when that
\* parses, else by sniffing (ribeyes first, then microglia), else it is
\* skipped without creating a row or changing a value.  A classified file
\* that is read writes its value to the column of its kind and leaves the
\* other column as it was.
C9_KindPerFile ==
    [][(pc = "files" /\ FolderMatches(all_dirs[di])) =>
          LET kind == ClaimedKind(csvs[fi])
              key  == FolderKey(all_dirs[di])
          IN  IF kind = None THEN summary' = summary /\ pc' # "raised"
              ELSE \/ pc' = "raised" /\ summary' = summary
                   \/ /\ RowOf(summary', key) # <<>>
                      /\ Col(RowOf(summary', key)[1], kind) = log'[Len(log')].val
                      /\ Col(RowOf(summary', key)[1], OtherKind(kind))
                            = IF RowOf(summary, key) = <<>> THEN None
                              ELSE Col(RowOf(summary, key)[1], OtherKind(kind))
      ]_vars

\* in a folder of kind ribeyes, a file whose name does not parse and holds
\* "microglia" only had its number stored in the microglia column
C9_Witness ==
    \E i \in DOMAIN log :
        /\ Stored(log[i])
        /\ FolderMatches(log[i].dir)
        /\ lower(NAME_RE(basename(log[i].dir)).kind) = KindRibeyes
        /\ ~NAME_RE(log[i].name).match
        /\ ClaimedKind(log[i].name) = KindMicroglia
        /\ log[i].val # None
        /\ RowOf(summary, FolderKey(log[i].dir))[1].microglia = log[i].val
        /\ RowOf(summary, FolderKey(log[i].dir))[1].Ribeyes = None

\* the groups a file is keyed from: those of its folder name when it
\* matches, else those of its own name
GroupsOf(folder, name) == IF folder.match THEN folder ELSE NAME_RE(name)

KeyGroups(e) == GroupsOf(NAME_RE(basename(e.dir)), e.name)

\* the position tag as written in the name
RawTag(e) == KeyGroups(e).pos

\* s without the spaces at its two ends
Trim(s) ==
    LET at == {i \in DOMAIN s : s[i] # " "}
    IN  IF at = {} THEN <<>>
        ELSE SubSeq(s, CHOOSE i \in at : \A j \in at : i <= j,
                       CHOOSE i \in at : \A j \in at : j <= i)

Trimmed(parts) == [i \in DOMAIN parts |-> lower(Trim(parts[i]))]

\* the segments of a tag, in lower case and without surrounding spaces
Segments(tag) == Trimmed(split(tag, "+"))

\* the multiset of the elements of a sequence: how often each occurs
BagOf(seq) ==
    [x \in {seq[i] : i \in DOMAIN seq} |-> Cardinality({i \in DOMAIN seq : seq[i] = x})]

\* subject, view and segment multiset of the groups of a name; two tags
\* have the same multiset when they are permutations of the same segments
PlaceFrom(g) ==
    [subject  |-> lower(g.mouse),
     view     |-> IF g.view = <<>> THEN <<"/">> ELSE g.view,
     segments |-> BagOf(Segments(g.pos))]

PlaceOf(e) == PlaceFrom(KeyGroups(e))

SamePlace(e, f) == PlaceOf(e) = PlaceOf(f)

AscendingParts(tag, parts) ==
    /\ tag = join(parts, "+")
    /\ \A i, j \in DOMAIN parts : i < j => ~StrLess(parts[j], parts[i])

\* the tag is its segments in ascending order joined by "+", nothing else
SortedJoined(tag) == AscendingParts(tag, Segments(tag))

\* no file stored after log[i] has its kind and the place p
LastOfItsKind(i, p) ==
    \A k \in DOMAIN log :
        (k > i /\ Stored(log[k]) /\ log[k].kind = log[i].kind) => PlaceOf(log[k]) # p

\* the rows of the place p
RowsAt(p) ==
    {r \in DOMAIN summary :
        /\ summary[r].mouse_ID = p.subject
        /\ summary[r].view_id = p.view
        /\ BagOf(Segments(summary[r].position)) = p.segments}

\* the rows hold what the microglia file log[i] and the ribeyes file log[j]
\* of the place p say
OneRowOfBoth(i, j, p, rows) ==
    /\ Cardinality(rows) = 1
    /\ \A r \in rows :
          /\ SortedJoined(summary[r].position)
          /\ LastOfItsKind(i, p) => summary[r].microglia = log[i].val
          /\ LastOfItsKind(j, p) => summary[r].Ribeyes = log[j].val

\* C3: two stored files, in either order, of the same subject and view and
\* of position tags that are permutations of the same segments (apart from
\* case and surrounding spaces), one microglia and one ribeyes, share exactly
\* one row; its position is the sorted "+"-joined tag, and it holds the
\* value of each file in the column of its kind (as long as no later file of
\* the same place and kind overwrote it): the second file makes no second
\* row and does not clear the value of the first.
C3_PermutedTagsMergeIntoOneRow ==
    \A i, j \in DOMAIN log :
        (/\ Stored(log[i]) /\ log[i].kind = KindMicroglia
         /\ Stored(log[j]) /\ log[j].kind = KindRibeyes)
        => \A p \in {PlaceOf(log[i])} :
              p = PlaceOf(log[j]) => OneRowOfBoth(i, j, p, RowsAt(p))

\* a ribeyes file, then a microglia file whose tag is written in another
\* order: one row with the two numbers
C3_Witness ==
    \E i, j \in DOMAIN log :
        /\ i < j
        /\ Stored(log[i]) /\ log[i].kind = KindRibeyes /\ log[i].val # None
        /\ Stored(log[j]) /\ log[j].kind = KindMicroglia /\ log[j].val # None
        /\ SamePlace(log[i], log[j])
        /\ RawTag(log[i]) # RawTag(log[j])
        /\ Len(summary) = 1
        /\ summary[1].Ribeyes = log[i].val
        /\ summary[1].microglia = log[j].val
        /\ log[i].val # log[j].val

\* the stored files with the directory, the row key and the kind of log[i]
SameCell(i) ==
    {j \in DOMAIN log :
        /\ Stored(log[j])
        /\ log[j].key = log[i].key
        /\ log[j].kind = log[i].kind}

\* name a comes before name b in natural order: at the first digit run or
\* text run where they differ, a has the smaller number or the smaller text
Before(a, b) == KeyLessFrom(natural_key(a), natural_key(b), 1)

\* the values of the files of S that no file of S comes after
ValuesOfLast(S) ==
    {log[j].val : j \in {k \in S : \A m \in S : ~Before(log[k].name, log[m].name)}}

\* the cell of log[i] holds the value read from a last file of S
CellIsOfLast(i, S) ==
    /\ RowOf(summary, log[i].key) # <<>>
    /\ Col(RowOf(summary, log[i].key)[1], log[i].kind) \in ValuesOfLast(S)

\* C5: when several files of one directory resolve to the same row key and
\* kind, the value of that marker is the one read from the file that is
\* last in natural order (digit runs as numbers), None if that file has no
\* number: when the directory has been gone through, and at the end of the
\* scan when no file of another directory resolves to the same key and kind.
C5_LastInNaturalOrderWins ==
    /\ (pc = "dirs" /\ di > 1) =>
          \A i \in DOMAIN log :
              LET S == {j \in SameCell(i) : log[j].dir = all_dirs[di - 1]}
              IN  (i \in S /\ Cardinality(S) >= 2) => CellIsOfLast(i, S)
    /\ pc \in {"returned", "done"} =>
          \A i \in DOMAIN log :
              (/\ Stored(log[i])
               /\ Cardinality(SameCell(i)) >= 2
               /\ \A j \in SameCell(i) : log[j].dir = log[i].dir)
              => CellIsOfLast(i, SameCell(i))

\* the file named with 2 held a number, the file named with 10 of the same
\* directory, key and kind held none: at the end the marker is absent
C5_Witness ==
    /\ pc = "done"
    /\ \E i, j \in DOMAIN log :
          /\ Stored(log[i]) /\ log[i].name = csvP2 /\ log[i].val # None
          /\ Stored(log[j]) /\ log[j].name = csvP10 /\ log[j].val = None
          /\ log[i].dir = log[j].dir
          /\ j \in SameCell(i)
          /\ Col(RowOf(summary, log[i].key)[1], log[i].kind) = None

\* C6: a csv that cannot be opened or decoded does not end build_summary
\* with an exception (the file is skipped and the scan goes on).
C6_NoExceptionEndsScan == pc # "raised"

\* C7: a run writes an output file if and only if the table has a row: with
\* no row, no file and the "nothing extracted" message; with rows, exactly
\* one file, written after the scan from the table as the scan left it.
C7_OutputIffRows ==
    pc \in {"done", "raised"} =>
        \/ summary = <<>> /\ written = <<>> /\ message = "nothing extracted"
        \/ summary # <<>> /\ written = <<summary>>

\* the same for the runs in which build_summary returns
OutputIffRowsOnReturn ==
    /\ Len(written) <= 1
    /\ written # <<>> => pc = "done" /\ written = <<summary>> /\ summary # <<>>
    /\ pc = "done" =>
          \/ summary = <<>> /\ written = <<>> /\ message = "nothing extracted"
          \/ summary # <<>> /\ written = <<summary>>

\* the strings of a finite set in ascending order
RECURSIVE Ascending(_)
Ascending(S) ==
    IF S = {} THEN <<>>
    ELSE LET m == CHOOSE x \in S : \A y \in S : x = y \/ StrLess(x, y)
         IN  <<m>> \o Ascending(S \ {m})

\* the directories of a finite set, their paths ascending
RECURSIVE AscendingDirs(_)
AscendingDirs(S) ==
    IF S = {} THEN <<>>
    ELSE LET m == CHOOSE x \in S : \A y \in S : x = y \/ StrLess(relpath(x), relpath(y))
         IN  <<m>> \o AscendingDirs(S \ {m})

\* the table of a scan that stores events in the order given
RECURSIVE StoreAll(_, _)
StoreAll(table, events) ==
    IF events = <<>> THEN table
    ELSE StoreAll(IF Stored(Head(events))
                  THEN Store(table, Head(events).key[1], Head(events).key[2],
                             Head(events).key[3], Head(events).kind, Head(events).val)
                  ELSE table,
                  Tail(events))

EventOf(d, name) == log[CHOOSE i \in DOMAIN log : log[i].dir = d /\ log[i].name = name]

\* the table of the run in which the system lists every directory in
\* ascending order of names, the files holding what this run read
AscendingSummary ==
    LET dirs == list_all_dirs(tree, AscendingDirs(tree.dirs \ {Root}))
        files(d) == list_csv_in_dir(Ascending(Entries(tree, d)))
    IN  StoreAll(<<>>,
                 Flatten([k \in DOMAIN dirs |->
                            [n \in DOMAIN files(dirs[k]) |->
                                EventOf(dirs[k], files(dirs[k])[n])]]))

\* C10: the table depends on the names and the contents only, not on the
\* order in which the system lists directory entries: every run that ends
\* builds the table of the run with entries listed in ascending order, also
\* when two names of a directory have equal natural keys.
C10_ListingOrderIrrelevant == pc = "done" => summary = AscendingSummary

\* two names have equal natural keys
Tied(a, b) == a # b /\ natural_key(a) = natural_key(b)

\* the same statement for trees without tied names in one directory
OrderIrrelevantWithoutTies ==
    (/\ pc = "done"
     /\ \A f, g \in tree.files : f.dir = g.dir => ~Tied(f.name, g.name)
     /\ \A c, d \in tree.dirs : ~Tied(relpath(c), relpath(d)))
    => summary = AscendingSummary

====
